---- MODULE Spec2Model ----
(***************************************************************************)
(* statuses.rs: the bidirectional status code / reason phrase lookup       *)
(* cache of src/lib.rs.                                                    *)
(*                                                                         *)
(* A string is a sequence of characters.  A character is written as a      *)
(* one-token TLA+ string: "a" and "A" are an ASCII letter in its two       *)
(* cases, " " is a white-space character, and "SIGMA", "sigma" and         *)
(* "fsigma" stand for the Greek letters U+03A3, U+03C3 and U+03C2 (the     *)
(* one contextual mapping of str::to_lowercase).                           *)
(***************************************************************************)
EXTENDS Integers, Sequences, FiniteSets, Bags, TLC

VARIABLES
    source,            \* the record source codes.json: readable or failing
    CODE_TO_MESSAGE,   \* OnceLock<HashMap>: [once, value]
    MESSAGE_TO_CODE,   \* OnceLock<HashMap>: [once, value]
    pc,                \* per thread: position inside a query call
    op,                \* per thread: the query operation being executed
    statuses,          \* per thread: local Vec<Status> of load_status_maps
    i,                 \* per thread: next element of the for loop, 1-based
    code_to_message,   \* per thread: local map under construction
    message_to_code,   \* per thread: local map under construction
    view,              \* per thread: the &'static HashMap the call obtained
    reads,             \* number of times codes.json has been read
    builds,            \* number of times load_status_maps has returned Ok
    norm               \* a string and the keys normalize_key makes of it

vars == <<source, CODE_TO_MESSAGE, MESSAGE_TO_CODE, pc, op, statuses, i,
          code_to_message, message_to_code, view, reads, builds, norm>>

----------------------------------------------------------------------------
(* Bounds *)

\* number of concurrent caller threads
NumThreads == 2
\* longest query string
MaxLen == 2
\* longest record sequence in the record source
MaxRecords == 2
\* longest string normalize_key is applied to on its own
MaxNormLen == 3

----------------------------------------------------------------------------
(* Strings *)

Chars == {"a", "A", " ", "SIGMA", "sigma"}

Strs == UNION {[1..n -> Chars] : n \in 0..MaxLen}

\* char::is_whitespace, as used by str::trim
IsWhitespace(c) == c = " "

\* core::unicode::Cased, as used by the final-sigma rule
IsCased(c) == c \in {"a", "A", "SIGMA", "sigma", "fsigma"}

\* a trim that removes one white-space character at each end (a mutant)
trim_one(s) ==
    LET lo == IF Len(s) > 0 /\ IsWhitespace(s[1]) THEN 2 ELSE 1
        hi == IF Len(s) >= lo /\ IsWhitespace(s[Len(s)])
              THEN Len(s) - 1 ELSE Len(s)
    IN  SubSeq(s, lo, hi)

\* str::trim: the slice between the first and the last non-white-space char
trim(s) ==
    LET keep == {k \in 1..Len(s) : ~IsWhitespace(s[k])}
    IN  IF keep = {} THEN << >>
        ELSE LET lo == CHOOSE k \in keep : \A j \in keep : k <= j
                 hi == CHOOSE k \in keep : \A j \in keep : k >= j
             IN  SubSeq(s, lo, hi)

\* char lowercase mapping for every char but the capital sigma
to_lower(c) == IF c = "A" THEN "a" ELSE c

\* alloc::str::map_uppercase_sigma: the capital sigma at position k is word
\* final when a cased letter precedes it and no cased letter follows it (the
\* alphabet holds no case-ignorable character)
map_uppercase_sigma(s, k) ==
    LET before == k > 1 /\ IsCased(s[k - 1])
        after  == k < Len(s) /\ IsCased(s[k + 1])
    IN  IF before /\ ~after THEN "fsigma" ELSE "sigma"

\* str::to_lowercase
to_lowercase(s) ==
    [k \in 1..Len(s) |->
        IF s[k] = "SIGMA" THEN map_uppercase_sigma(s, k) ELSE to_lower(s[k])]

\* a normalize_key that forgets the trim (a mutant)
normalize_key_no_trim(s) == to_lowercase(s)

\* fn normalize_key(s: &str) -> String { s.trim().to_lowercase() }
normalize_key(s) == to_lowercase(trim(s))

----------------------------------------------------------------------------
(* Records and the record source *)

\* struct Status { code, message }
Status(c, m) == [code |-> c, message |-> m]

\* the strings that occur in records of the record source
RecordStrs == { <<"A">>, <<" ", "a">>, <<"a", "SIGMA">> }

Records == {Status(c, m) : c \in RecordStrs, m \in RecordStrs}

RecordSeqs == UNION {[1..n -> Records] : n \in 0..MaxRecords}

\* codes.json as read_to_string and serde_json::from_str see it
Readable(recs) == [kind |-> "ok", statuses |-> recs]
IoFailure == [kind |-> "io_error", statuses |-> << >>]
JsonFailure == [kind |-> "json_error", statuses |-> << >>]

----------------------------------------------------------------------------
(* HashMap<String, String> *)

EmptyMap == [k \in {} |-> << >>]

\* HashMap::insert: a new key is added, an existing key's value is replaced
MapInsert(m, key, val) ==
    [k \in (DOMAIN m) \cup {key} |-> IF k = key THEN val ELSE m[k]]

\* an insert that keeps the value of an existing key (a mutant)
MapInsertKeepFirst(m, key, val) ==
    [k \in (DOMAIN m) \cup {key} |-> IF k \in DOMAIN m THEN m[k] ELSE val]

\* HashMap::values().cloned().collect(): the Vec holds one element for each
\* key, in the map's unspecified iteration order; modelled as the bag of
\* its elements
MapValues(m) ==
    LET vals == {m[k] : k \in DOMAIN m}
    IN  [v \in vals |-> Cardinality({k \in DOMAIN m : m[k] = v})]

\* Result<String, StatusError>
Ok(v) == [tag |-> "Ok", val |-> v]
NotFound == [tag |-> "NotFound", val |-> << >>]

\* a lookup that answers a missing key with an empty string (a mutant)
MapGetOrDefault(m, key) == IF key \in DOMAIN m THEN Ok(m[key]) ELSE Ok(<< >>)

\* HashMap::get(key).cloned().ok_or(StatusError::NotFound)
MapGet(m, key) == IF key \in DOMAIN m THEN Ok(m[key]) ELSE NotFound

----------------------------------------------------------------------------
(* load_status_maps *)

\* a loop body that stores the normalized strings as values (a mutant)
InsertStatusNormalized(maps, status) ==
    [c2m |-> MapInsert(maps.c2m, normalize_key(status.code),
                       normalize_key(status.message)),
     m2c |-> MapInsert(maps.m2c, normalize_key(status.message),
                       normalize_key(status.code))]

\* a loop body that keeps the first of two records with the same key
\* (a mutant)
InsertStatusKeepFirst(maps, status) ==
    [c2m |-> MapInsertKeepFirst(maps.c2m, normalize_key(status.code),
                                status.message),
     m2c |-> MapInsertKeepFirst(maps.m2c, normalize_key(status.message),
                                status.code)]

\* a loop body that also indexes each record under its raw string (a mutant)
InsertStatusRawToo(maps, status) ==
    [c2m |-> MapInsert(MapInsert(maps.c2m, status.code, status.message),
                       normalize_key(status.code), status.message),
     m2c |-> MapInsert(MapInsert(maps.m2c, status.message, status.code),
                       normalize_key(status.message), status.code)]

\* the body of the for loop, lines 54-60
InsertStatus(maps, status) ==
    [c2m |-> MapInsert(maps.c2m, normalize_key(status.code), status.message),
     m2c |-> MapInsert(maps.m2c, normalize_key(status.message), status.code)]

EmptyMaps == [c2m |-> EmptyMap, m2c |-> EmptyMap]

RECURSIVE BuildMaps(_, _)
\* the for loop over the first n records
BuildMaps(recs, n) ==
    IF n = 0 THEN EmptyMaps
    ELSE InsertStatus(BuildMaps(recs, n - 1), recs[n])

\* load_status_maps on a readable, parsable record source: Ok((c2m, m2c))
load_status_maps(recs) == BuildMaps(recs, Len(recs))

----------------------------------------------------------------------------
(* The query interface over a built map *)

\* a validity test that skips the normalization of its argument (a mutant)
ContainsRawKey(m, s) == s \in DOMAIN m

\* .contains_key(&normalize_key(s)), lines 185 and 208
ContainsKey(m, s) == normalize_key(s) \in DOMAIN m

\* .get(&normalize_key(s)).cloned().ok_or(NotFound), lines 123-126, 159-162
Lookup(m, s) == MapGet(m, normalize_key(s))

\* pub fn code(message), once get_message_to_code() has returned
code(m) == Lookup(MESSAGE_TO_CODE.value, m)

\* pub fn message(code), once get_code_to_message() has returned
message(c) == Lookup(CODE_TO_MESSAGE.value, c)

\* pub fn is_valid_code(code)
is_valid_code(c) == ContainsKey(CODE_TO_MESSAGE.value, c)

\* pub fn is_valid_message(message)
is_valid_message(m) == ContainsKey(MESSAGE_TO_CODE.value, m)

\* pub fn all_codes(): the values of MESSAGE_TO_CODE
all_codes == MapValues(MESSAGE_TO_CODE.value)

\* pub fn all_messages(): the values of CODE_TO_MESSAGE
all_messages == MapValues(CODE_TO_MESSAGE.value)

----------------------------------------------------------------------------
(* The two OnceLock cells *)

Threads == 1..NumThreads

\* the queries that read MESSAGE_TO_CODE and those that read CODE_TO_MESSAGE
OpsOnMessageToCode == {"code", "is_valid_message", "all_codes"}
OpsOnCodeToMessage == {"message", "is_valid_code", "all_messages"}
Ops == OpsOnMessageToCode \cup OpsOnCodeToMessage

\* the cell a query goes through: get_message_to_code or get_code_to_message
CellOf(o) == IF o \in OpsOnMessageToCode THEN "m2c" ELSE "c2m"

Cell(c) == IF c = "c2m" THEN CODE_TO_MESSAGE ELSE MESSAGE_TO_CODE

\* static CELL: OnceLock<..> = OnceLock::new()
Uninit == [once |-> "incomplete", value |-> EmptyMap]

\* a readiness test that is also satisfied while the initializer runs
\* (a mutant)
IsStarted(cell) == cell.once \in {"running", "complete"}

\* OnceLock::get: the value is there once the Once has completed
IsInitialized(cell) == cell.once = "complete"

\* the half of the loader's result a cell's closure keeps, lines 77-79, 87-89
Half(c, maps) == IF c = "c2m" THEN maps.c2m ELSE maps.m2c

SetCell(c, v) ==
    IF c = "c2m"
    THEN CODE_TO_MESSAGE' = v /\ UNCHANGED MESSAGE_TO_CODE
    ELSE MESSAGE_TO_CODE' = v /\ UNCHANGED CODE_TO_MESSAGE

NoLocals == [t \in Threads |-> << >>]

----------------------------------------------------------------------------
(* Initial states *)

InitCache ==
    /\ CODE_TO_MESSAGE = Uninit
    /\ MESSAGE_TO_CODE = Uninit
    /\ pc = [t \in Threads |-> "idle"]
    /\ op = [t \in Threads |-> "none"]
    /\ statuses = NoLocals
    /\ i = [t \in Threads |-> 0]
    /\ code_to_message = [t \in Threads |-> EmptyMap]
    /\ message_to_code = [t \in Threads |-> EmptyMap]
    /\ view = [t \in Threads |-> EmptyMap]
    /\ reads = 0
    /\ builds = 0

\* the record sources the concurrent callers run against: a missing file, a
\* malformed file, a collision-free file and a file with colliding keys
SampleSources ==
    { IoFailure,
      JsonFailure,
      Readable(<< Status(<<"A">>, <<"a", "SIGMA">>),
                  Status(<<"a", "SIGMA">>, <<" ", "a">>) >>),
      Readable(<< Status(<<"A">>, <<"A">>),
                  Status(<<" ", "a">>, <<"a", "SIGMA">>) >>) }

\* no string is being normalized on its own
NoNorm == [input |-> << >>, first |-> << >>, second |-> << >>, n |-> 0]

Init == source \in SampleSources /\ InitCache /\ norm = NoNorm

InitLoad ==
    /\ source \in {Readable(recs) : recs \in RecordSeqs}
    /\ InitCache
    /\ norm = NoNorm

----------------------------------------------------------------------------
(* A query call, step by step, by thread t *)

ThreadLocals == <<statuses, i, code_to_message, message_to_code>>

\* the call obtains its reference to the built map and performs its lookup
Obtain(t, c) ==
    /\ view' = [view EXCEPT ![t] = Cell(c).value]
    /\ pc' = [pc EXCEPT ![t] = "done"]

\* entry of a query o: OnceLock::get_or_init first tries OnceLock::get
Call(t, o) ==
    /\ pc[t] = "idle"
    /\ op' = [op EXCEPT ![t] = o]
    /\ IF IsInitialized(Cell(CellOf(o)))
       THEN Obtain(t, CellOf(o))
       ELSE pc' = [pc EXCEPT ![t] = "init"] /\ UNCHANGED view
    /\ UNCHANGED <<norm, source, CODE_TO_MESSAGE, MESSAGE_TO_CODE, ThreadLocals,
                   reads, builds>>

CallCode(t) == Call(t, "code")
CallMessage(t) == Call(t, "message")
CallIsValidCode(t) == Call(t, "is_valid_code")
CallIsValidMessage(t) == Call(t, "is_valid_message")
CallAllCodes(t) == Call(t, "all_codes")
CallAllMessages(t) == Call(t, "all_messages")

\* a Once that stays poisoned: a call that finds the cell poisoned panics
\* without running the closure (a mutant)
OnceCallPoisoning(t) ==
    LET c == CellOf(op[t])
        cell == Cell(c)
    IN  /\ pc[t] = "init"
        /\ cell.once # "running"
        /\ CASE cell.once = "incomplete" ->
                  /\ SetCell(c, [cell EXCEPT !.once = "running"])
                  /\ pc' = [pc EXCEPT ![t] = "load"]
                  /\ UNCHANGED view
             [] cell.once = "poisoned" ->
                  /\ pc' = [pc EXCEPT ![t] = "panicked"]
                  /\ UNCHANGED <<CODE_TO_MESSAGE, MESSAGE_TO_CODE, view>>
             [] cell.once = "complete" ->
                  /\ Obtain(t, c)
                  /\ UNCHANGED <<CODE_TO_MESSAGE, MESSAGE_TO_CODE>>
        /\ UNCHANGED <<norm, source, op, ThreadLocals, reads, builds>>

\* a slow path that does not look at the Once again: a cell that completed
\* since the fast path is taken over like an incomplete one (a mutant)
OnceCallNoRecheck(t) ==
    LET c == CellOf(op[t])
        cell == Cell(c)
    IN  /\ pc[t] = "init"
        /\ cell.once # "running"
        /\ SetCell(c, [cell EXCEPT !.once = "running"])
        /\ pc' = [pc EXCEPT ![t] = "load"]
        /\ UNCHANGED <<norm, source, op, ThreadLocals, view, reads, builds>>

\* a slow path without mutual exclusion: a caller that finds the
\* initializer running runs it too (a mutant)
OnceCallNoExclusion(t) ==
    LET c == CellOf(op[t])
        cell == Cell(c)
    IN  /\ pc[t] = "init"
        /\ IF cell.once = "complete"
           THEN /\ Obtain(t, c)
                /\ UNCHANGED <<CODE_TO_MESSAGE, MESSAGE_TO_CODE>>
           ELSE /\ SetCell(c, [cell EXCEPT !.once = "running"])
                /\ pc' = [pc EXCEPT ![t] = "load"]
                /\ UNCHANGED view
        /\ UNCHANGED <<norm, source, op, ThreadLocals, reads, builds>>

\* OnceLock::initialize -> Once::call_once_force: an incomplete or poisoned
\* Once is taken over and the closure runs; a running Once blocks the
\* caller; a completed Once lets it read the value
OnceCall(t) ==
    LET c == CellOf(op[t])
        cell == Cell(c)
    IN  /\ pc[t] = "init"
        /\ cell.once # "running"
        /\ IF cell.once = "complete"
           THEN /\ Obtain(t, c)
                /\ UNCHANGED <<CODE_TO_MESSAGE, MESSAGE_TO_CODE>>
           ELSE /\ SetCell(c, [cell EXCEPT !.once = "running"])
                /\ pc' = [pc EXCEPT ![t] = "load"]
                /\ UNCHANGED view
        /\ UNCHANGED <<norm, source, op, ThreadLocals, reads, builds>>

\* a loader whose failure ends the thread without unwinding through the
\* Once: the cell stays running and nobody wakes its waiters (a mutant)
ReadNoRelease(t) ==
    /\ pc[t] = "load"
    /\ reads' = reads + 1
    /\ IF source.kind = "ok"
       THEN /\ statuses' = [statuses EXCEPT ![t] = source.statuses]
            /\ i' = [i EXCEPT ![t] = 1]
            /\ pc' = [pc EXCEPT ![t] = "loop"]
       ELSE /\ pc' = [pc EXCEPT ![t] = "panicked"]
            /\ UNCHANGED <<statuses, i>>
    /\ UNCHANGED <<norm, source, CODE_TO_MESSAGE, MESSAGE_TO_CODE, op,
                   code_to_message, message_to_code, view, builds>>

\* load_status_maps, lines 47-52: read and parse codes.json; an Err makes
\* the closure's expect panic, which unwinds through get_or_init, leaves
\* the Once poisoned and ends the thread
Read(t) ==
    /\ pc[t] = "load"
    /\ reads' = reads + 1
    /\ IF source.kind = "ok"
       THEN /\ statuses' = [statuses EXCEPT ![t] = source.statuses]
            /\ i' = [i EXCEPT ![t] = 1]
            /\ pc' = [pc EXCEPT ![t] = "loop"]
            /\ UNCHANGED <<CODE_TO_MESSAGE, MESSAGE_TO_CODE>>
       ELSE /\ SetCell(CellOf(op[t]),
                       [Cell(CellOf(op[t])) EXCEPT !.once = "poisoned"])
            /\ pc' = [pc EXCEPT ![t] = "panicked"]
            /\ UNCHANGED <<statuses, i>>
    /\ UNCHANGED <<norm, source, op, code_to_message, message_to_code, view, builds>>

\* one iteration of the for loop, lines 54-60
Insert(t) ==
    /\ pc[t] = "loop"
    /\ i[t] <= Len(statuses[t])
    /\ LET maps == InsertStatus([c2m |-> code_to_message[t],
                                 m2c |-> message_to_code[t]],
                                statuses[t][i[t]])
       IN  /\ code_to_message' = [code_to_message EXCEPT ![t] = maps.c2m]
           /\ message_to_code' = [message_to_code EXCEPT ![t] = maps.m2c]
    /\ i' = [i EXCEPT ![t] = i[t] + 1]
    /\ UNCHANGED <<norm, source, CODE_TO_MESSAGE, MESSAGE_TO_CODE, pc, op, statuses,
                   view, reads, builds>>

\* an initializer that stores both halves of the loader's result, each in
\* its cell (a mutant)
FinishBoth(t) ==
    LET c == CellOf(op[t])
        maps == [c2m |-> code_to_message[t], m2c |-> message_to_code[t]]
    IN  /\ pc[t] = "loop"
        /\ i[t] > Len(statuses[t])
        /\ builds' = builds + 1
        /\ CODE_TO_MESSAGE' = [once |-> "complete", value |-> maps.c2m]
        /\ MESSAGE_TO_CODE' = [once |-> "complete", value |-> maps.m2c]
        /\ view' = [view EXCEPT ![t] = Half(c, maps)]
        /\ pc' = [pc EXCEPT ![t] = "done"]
        /\ statuses' = [statuses EXCEPT ![t] = << >>]
        /\ i' = [i EXCEPT ![t] = 0]
        /\ code_to_message' = [code_to_message EXCEPT ![t] = EmptyMap]
        /\ message_to_code' = [message_to_code EXCEPT ![t] = EmptyMap]
        /\ UNCHANGED <<norm, source, op, reads>>

\* the loop is over: load_status_maps returns Ok, the closure keeps its half
\* of the pair and drops the other, the OnceLock stores the value and
\* completes, and get_or_init returns the reference
Finish(t) ==
    LET c == CellOf(op[t])
        built == Half(c, [c2m |-> code_to_message[t],
                          m2c |-> message_to_code[t]])
    IN  /\ pc[t] = "loop"
        /\ i[t] > Len(statuses[t])
        /\ builds' = builds + 1
        /\ SetCell(c, [once |-> "complete", value |-> built])
        /\ view' = [view EXCEPT ![t] = built]
        /\ pc' = [pc EXCEPT ![t] = "done"]
        /\ statuses' = [statuses EXCEPT ![t] = << >>]
        /\ i' = [i EXCEPT ![t] = 0]
        /\ code_to_message' = [code_to_message EXCEPT ![t] = EmptyMap]
        /\ message_to_code' = [message_to_code EXCEPT ![t] = EmptyMap]
        /\ UNCHANGED <<norm, source, op, reads>>

\* the query returns to its caller, which may call again
Return(t) ==
    /\ pc[t] = "done"
    /\ pc' = [pc EXCEPT ![t] = "idle"]
    /\ op' = [op EXCEPT ![t] = "none"]
    /\ view' = [view EXCEPT ![t] = EmptyMap]
    /\ UNCHANGED <<norm, source, CODE_TO_MESSAGE, MESSAGE_TO_CODE, ThreadLocals,
                   reads, builds>>

Next ==
    \E t \in Threads :
        \/ CallCode(t)
        \/ CallMessage(t)
        \/ CallIsValidCode(t)
        \/ CallIsValidMessage(t)
        \/ CallAllCodes(t)
        \/ CallAllMessages(t)
        \/ OnceCall(t)
        \/ Read(t)
        \/ Insert(t)
        \/ Finish(t)
        \/ Return(t)

Spec == Init /\ [][Next]_vars

\* fair scheduling and a terminating loader: a thread inside a call keeps
\* taking its steps as long as it can (a waiter of call_once_force can, once
\* the Once is no longer running); nothing obliges a thread to call again
SpecFair ==
    /\ Init
    /\ [][Next]_vars
    /\ \A t \in Threads :
        WF_vars(OnceCall(t)) /\ WF_vars(Read(t)) /\ WF_vars(Insert(t))
            /\ WF_vars(Finish(t))

----------------------------------------------------------------------------
(* A query call as one step of a single caller *)

\* the whole of a query o run to completion with no other caller: the cell
\* is initialized from one run of load_status_maps unless it already is
SeqCall(o) ==
    LET c == CellOf(o)
    IN  /\ source.kind = "ok"
        /\ IF IsInitialized(Cell(c))
           THEN UNCHANGED <<CODE_TO_MESSAGE, MESSAGE_TO_CODE, reads, builds>>
           ELSE /\ SetCell(c, [once |-> "complete",
                               value |-> Half(c, load_status_maps(source.statuses))])
                /\ reads' = reads + 1
                /\ builds' = builds + 1
        /\ UNCHANGED <<norm, source, pc, op, ThreadLocals, view>>

NextLoad == \E o \in Ops : SeqCall(o)

SpecLoad == InitLoad /\ [][NextLoad]_vars

----------------------------------------------------------------------------
(* A record source that changes while the process runs *)

\* the contents codes.json goes through: two collision-free files with the
\* same keys and different pairings, and a time at which it cannot be read
DriftSources ==
    { Readable(<< Status(<<"A">>, <<"a", "SIGMA">>),
                  Status(<<"a", "SIGMA">>, <<" ", "a">>) >>),
      Readable(<< Status(<<"A">>, <<" ", "a">>),
                  Status(<<"a", "SIGMA">>, <<"a", "SIGMA">>) >>),
      IoFailure }

InitDrift == source \in DriftSources /\ InitCache /\ norm = NoNorm

\* codes.json is replaced, removed or restored by its owner
SourceChange ==
    /\ source' \in DriftSources \ {source}
    /\ UNCHANGED <<CODE_TO_MESSAGE, MESSAGE_TO_CODE, pc, op, ThreadLocals,
                   view, reads, builds, norm>>

NextDrift == Next \/ SourceChange

SpecDrift == InitDrift /\ [][NextDrift]_vars

----------------------------------------------------------------------------
(* normalize_key on its own *)

NormStrs == UNION {[1..n -> Chars] : n \in 0..MaxNormLen}

InitNorm ==
    /\ source = Readable(<< >>)
    /\ InitCache
    /\ \E s \in NormStrs :
           norm = [input |-> s, first |-> << >>, second |-> << >>, n |-> 0]

NormFrame ==
    UNCHANGED <<source, CODE_TO_MESSAGE, MESSAGE_TO_CODE, pc, op, ThreadLocals,
                view, reads, builds>>

\* normalize_key applied to the input string
NormalizeInput ==
    /\ norm.n = 0
    /\ norm' = [norm EXCEPT !.first = normalize_key(norm.input), !.n = 1]
    /\ NormFrame

\* normalize_key applied to the key it returned
NormalizeKey ==
    /\ norm.n = 1
    /\ norm' = [norm EXCEPT !.second = normalize_key(norm.first), !.n = 2]
    /\ NormFrame

NextNorm == NormalizeInput \/ NormalizeKey

SpecNorm == InitNorm /\ [][NextNorm]_vars

----------------------------------------------------------------------------
(* Vocabulary of the properties *)

Recs == source.statuses

RecIdx == 1..Len(Recs)

\* no two records share a normalized code or a normalized message
CollisionFree ==
    \A j, k \in RecIdx :
        j # k => /\ normalize_key(Recs[j].code) # normalize_key(Recs[k].code)
                 /\ normalize_key(Recs[j].message) # normalize_key(Recs[k].message)

\* the map a cell holds when it is built from the whole record source
FullMap(c) == Half(c, load_status_maps(Recs))

\* the position of the last record whose normalized code (message) is key
LastWithCode(key) ==
    CHOOSE j \in RecIdx :
        /\ normalize_key(Recs[j].code) = key
        /\ \A k \in RecIdx : k > j => normalize_key(Recs[k].code) # key

LastWithMessage(key) ==
    CHOOSE j \in RecIdx :
        /\ normalize_key(Recs[j].message) = key
        /\ \A k \in RecIdx : k > j => normalize_key(Recs[k].message) # key

\* the letter a character is, whatever its case
Letter(ch) ==
    IF ch \in {"a", "A"} THEN "a"
    ELSE IF ch \in {"SIGMA", "sigma", "fsigma"} THEN "sigma"
    ELSE ch

\* s1 and s2 differ at most in the case of their letters and in leading and
\* trailing white space
DifferOnlyInCaseOrPadding(s1, s2) ==
    LET u == trim(s1)
        v == trim(s2)
    IN  /\ Len(u) = Len(v)
        /\ \A k \in 1..Len(u) : Letter(u[k]) = Letter(v[k])

\* a bag holds no element twice
NoDuplicates(bag) == \A v \in DOMAIN bag : bag[v] = 1

----------------------------------------------------------------------------
(* C1 *)

\* C1: over the whole run, whatever the interleaving of the callers,
\* load_status_maps succeeds at most once: after a completed build no query
\* runs the Loader again.
C1_LoaderRunsOnce == builds <= 1

----------------------------------------------------------------------------
(* C2 *)

\* C2: the two mappings are published together: in every reachable state
\* CODE_TO_MESSAGE is initialized if and only if MESSAGE_TO_CODE is.
C2_PublishedTogether ==
    IsInitialized(CODE_TO_MESSAGE) <=> IsInitialized(MESSAGE_TO_CODE)

----------------------------------------------------------------------------
(* C3 *)

\* C3: for a collision-free record set, once a mapping is built, every
\* record r satisfies message(r.code) = Ok(r.message) and
\* code(r.message) = Ok(r.code), the values being the record's original
\* strings.
C3_RoundTrip ==
    CollisionFree =>
        \A k \in RecIdx :
            /\ IsInitialized(CODE_TO_MESSAGE) =>
                   message(Recs[k].code) = Ok(Recs[k].message)
            /\ IsInitialized(MESSAGE_TO_CODE) =>
                   code(Recs[k].message) = Ok(Recs[k].code)

\* both mappings are built from two collision-free records, one of which has
\* a code and a message that are not their own normalized keys
C3_Witness ==
    /\ IsInitialized(CODE_TO_MESSAGE)
    /\ IsInitialized(MESSAGE_TO_CODE)
    /\ CollisionFree
    /\ Len(Recs) = 2
    /\ \E k \in RecIdx : /\ normalize_key(Recs[k].code) # Recs[k].code
                         /\ normalize_key(Recs[k].message) # Recs[k].message

----------------------------------------------------------------------------
(* C4 *)

\* C4: a failing Loader is reported to the caller of the triggering query as
\* a typed error: no query call ends in a panic.
C4_TypedDataError == \A t \in Threads : pc[t] # "panicked"

----------------------------------------------------------------------------
(* C5 *)

\* C5: when the Loader fails no mapping is published (neither cell is
\* initialized and no value is stored), no call returns a result, and every
\* call that has ended has run the Loader itself: each failure is one more
\* read of the record source, never a failure remembered from an earlier
\* call.
C5_FailedLoadRetried ==
    source.kind # "ok" =>
        /\ ~IsInitialized(CODE_TO_MESSAGE) /\ CODE_TO_MESSAGE.value = EmptyMap
        /\ ~IsInitialized(MESSAGE_TO_CODE) /\ MESSAGE_TO_CODE.value = EmptyMap
        /\ \A t \in Threads : pc[t] # "done"
        /\ reads = Cardinality({t \in Threads : pc[t] = "panicked"})

\* two calls through the same cell have failed, the second one after the
\* first one left the cell poisoned
C5_Witness ==
    /\ source.kind # "ok"
    /\ \E t1, t2 \in Threads :
        /\ t1 # t2
        /\ pc[t1] = "panicked" /\ pc[t2] = "panicked"
        /\ CellOf(op[t1]) = CellOf(op[t2])

----------------------------------------------------------------------------
(* C6 *)

\* C6: whatever the interleaving, the map a call obtains is the map built
\* from the whole record set, and an initialized cell holds that map: no
\* result comes from an empty or partly filled map and all callers of a
\* mapping see the same contents.
C6_FullyBuilt ==
    /\ \A t \in Threads : pc[t] = "done" => view[t] = FullMap(CellOf(op[t]))
    /\ CODE_TO_MESSAGE.once = "complete" =>
           CODE_TO_MESSAGE.value = FullMap("c2m")
    /\ MESSAGE_TO_CODE.once = "complete" =>
           MESSAGE_TO_CODE.value = FullMap("m2c")

\* two callers with distinct queries on the same mapping have both obtained
\* the map of a two-record source
C6_Witness ==
    /\ Len(Recs) = 2
    /\ \E t1, t2 \in Threads :
        /\ t1 # t2
        /\ pc[t1] = "done" /\ pc[t2] = "done"
        /\ op[t1] # op[t2]
        /\ CellOf(op[t1]) = CellOf(op[t2])
        /\ view[t1] # EmptyMap

----------------------------------------------------------------------------
(* C7 *)

\* C7: is_valid_code(c) is true exactly when message(c) is Ok, and
\* is_valid_message(m) is true exactly when code(m) is Ok, for every string.
C7_ValidIffFound ==
    /\ IsInitialized(CODE_TO_MESSAGE) =>
           \A c \in Strs : is_valid_code(c) <=> message(c).tag = "Ok"
    /\ IsInitialized(MESSAGE_TO_CODE) =>
           \A m \in Strs : is_valid_message(m) <=> code(m).tag = "Ok"

\* both mappings are built; a string that is not its own key is a valid code
\* and another string is no valid code, and the same for messages
C7_Witness ==
    /\ IsInitialized(CODE_TO_MESSAGE)
    /\ IsInitialized(MESSAGE_TO_CODE)
    /\ \E c \in Strs : is_valid_code(c) /\ normalize_key(c) # c
    /\ \E c \in Strs : ~is_valid_code(c)
    /\ \E m \in Strs : is_valid_message(m) /\ normalize_key(m) # m
    /\ \E m \in Strs : ~is_valid_message(m)

----------------------------------------------------------------------------
(* C8 *)

\* C8: two query strings that differ only in letter case or in leading and
\* trailing white space get the same result from code, message,
\* is_valid_code and is_valid_message.
C8_CaseAndPaddingInsensitive ==
    \A s1, s2 \in Strs :
        DifferOnlyInCaseOrPadding(s1, s2) =>
            /\ IsInitialized(CODE_TO_MESSAGE) =>
                   /\ message(s1) = message(s2)
                   /\ is_valid_code(s1) = is_valid_code(s2)
            /\ IsInitialized(MESSAGE_TO_CODE) =>
                   /\ code(s1) = code(s2)
                   /\ is_valid_message(s1) = is_valid_message(s2)

----------------------------------------------------------------------------
(* C9 *)

\* C9: last write wins: the keys of CodeToMessage are the normalized codes
\* of the records and CodeToMessage[k] is the message of the last record
\* whose normalized code is k; likewise MessageToCode[k] is the code of the
\* last record whose normalized message is k.
C9_LastWriteWins ==
    /\ IsInitialized(CODE_TO_MESSAGE) =>
        /\ DOMAIN CODE_TO_MESSAGE.value =
               {normalize_key(Recs[j].code) : j \in RecIdx}
        /\ \A key \in DOMAIN CODE_TO_MESSAGE.value :
               CODE_TO_MESSAGE.value[key] = Recs[LastWithCode(key)].message
    /\ IsInitialized(MESSAGE_TO_CODE) =>
        /\ DOMAIN MESSAGE_TO_CODE.value =
               {normalize_key(Recs[j].message) : j \in RecIdx}
        /\ \A key \in DOMAIN MESSAGE_TO_CODE.value :
               MESSAGE_TO_CODE.value[key] = Recs[LastWithMessage(key)].code

\* both mappings are built from a source in which two records share a
\* normalized code with different messages and two records share a
\* normalized message with different codes
C9_Witness ==
    /\ IsInitialized(CODE_TO_MESSAGE)
    /\ IsInitialized(MESSAGE_TO_CODE)
    /\ \E j, k \in RecIdx :
        /\ j < k
        /\ normalize_key(Recs[j].code) = normalize_key(Recs[k].code)
        /\ Recs[j].message # Recs[k].message
    /\ \E j, k \in RecIdx :
        /\ j < k
        /\ normalize_key(Recs[j].message) = normalize_key(Recs[k].message)
        /\ Recs[j].code # Recs[k].code

----------------------------------------------------------------------------
(* C10 *)

\* no two records with different normalized messages carry the same code
DistinctCodes ==
    \A j, k \in RecIdx :
        normalize_key(Recs[j].message) # normalize_key(Recs[k].message)
            => Recs[j].code # Recs[k].code

\* no two records with different normalized codes carry the same message
DistinctMessages ==
    \A j, k \in RecIdx :
        normalize_key(Recs[j].code) # normalize_key(Recs[k].code)
            => Recs[j].message # Recs[k].message

\* C10 as stated: for every record set all_codes() holds no code twice and
\* all_messages() holds no message twice.
C10_NoDuplicates ==
    /\ IsInitialized(MESSAGE_TO_CODE) => NoDuplicates(all_codes)
    /\ IsInitialized(CODE_TO_MESSAGE) => NoDuplicates(all_messages)

\* C10 as amended: all_codes() holds no code twice when no two records with
\* different normalized messages carry the same code string, and
\* all_messages() holds no message twice when no two records with different
\* normalized codes carry the same message string.
C10_NoDuplicatesOfDistinct ==
    /\ IsInitialized(MESSAGE_TO_CODE) /\ DistinctCodes
           => NoDuplicates(all_codes)
    /\ IsInitialized(CODE_TO_MESSAGE) /\ DistinctMessages
           => NoDuplicates(all_messages)

\* both mappings are built from two records that differ in every string up
\* to normalization; both lists have two elements
C10_Witness ==
    /\ IsInitialized(MESSAGE_TO_CODE)
    /\ IsInitialized(CODE_TO_MESSAGE)
    /\ DistinctCodes
    /\ DistinctMessages
    /\ BagCardinality(all_codes) = 2
    /\ BagCardinality(all_messages) = 2

----------------------------------------------------------------------------
(* C11 *)

\* C11: all_codes() returns all valid status codes and all_messages() all
\* valid status messages: for every record r some element of all_codes()
\* normalizes to normalize_key(r.code) and some element of all_messages()
\* normalizes to normalize_key(r.message).
C11_AllValidListed ==
    /\ IsInitialized(MESSAGE_TO_CODE) =>
           \A k \in RecIdx :
               \E v \in DOMAIN all_codes :
                   normalize_key(v) = normalize_key(Recs[k].code)
    /\ IsInitialized(CODE_TO_MESSAGE) =>
           \A k \in RecIdx :
               \E v \in DOMAIN all_messages :
                   normalize_key(v) = normalize_key(Recs[k].message)

----------------------------------------------------------------------------
(* C12 *)

\* C12: a mapping that is Ready never changes and never becomes
\* uninitialized again: no step of any query, in any interleaving, alters a
\* cell whose Once has completed.
C12_ReadyIsFrozen ==
    [][/\ CODE_TO_MESSAGE.once = "complete" =>
              CODE_TO_MESSAGE' = CODE_TO_MESSAGE
       /\ MESSAGE_TO_CODE.once = "complete" =>
              MESSAGE_TO_CODE' = MESSAGE_TO_CODE]_vars

\* both mappings have been built and read by later queries that have since
\* returned, while another query is about to take the fast path
C12_Witness ==
    /\ CODE_TO_MESSAGE.once = "complete"
    /\ MESSAGE_TO_CODE.once = "complete"
    /\ CODE_TO_MESSAGE.value # EmptyMap
    /\ builds = 2
    /\ \E t1, t2 \in Threads :
        /\ t1 # t2
        /\ pc[t1] = "idle"
        /\ pc[t2] = "done"

----------------------------------------------------------------------------
(* C13 *)

\* the two lookups, and the original strings the records give for a key
Lookups == {"code", "message"}

StoredFor(c, key) ==
    IF c = "c2m"
    THEN {Recs[k].message : k \in {j \in RecIdx : normalize_key(Recs[j].code) = key}}
    ELSE {Recs[k].code : k \in {j \in RecIdx : normalize_key(Recs[j].message) = key}}

\* what the lookup of thread t returns for the argument s
LookupResult(t, s) == Lookup(view[t], s)

\* C13: a lookup on a Ready mapping whose normalized key is not in the
\* mapping returns NotFound, never a value; otherwise it returns the value
\* stored for the key, an original string of a record.  The lookup ends
\* in its result, never in an abort, and changes neither mapping.
C13_NotFoundOrStored ==
    /\ [](\A t \in Threads :
            pc[t] = "done" /\ op[t] \in Lookups =>
                \A s \in Strs :
                    LET c == CellOf(op[t])
                        key == normalize_key(s)
                    IN  IF key \in DOMAIN Cell(c).value
                        THEN /\ LookupResult(t, s) = Ok(Cell(c).value[key])
                             /\ LookupResult(t, s).val \in StoredFor(c, key)
                        ELSE LookupResult(t, s) = NotFound)
    /\ [][\A t \in Threads :
            /\ pc[t] = "idle"
            /\ op'[t] \in Lookups
            /\ Cell(CellOf(op'[t])).once = "complete"
            => /\ pc'[t] = "done"
               /\ CODE_TO_MESSAGE' = CODE_TO_MESSAGE
               /\ MESSAGE_TO_CODE' = MESSAGE_TO_CODE]_vars

\* a lookup has returned from a mapping that holds one of the keys it can
\* be asked for, stored under a key that is not the original string, and
\* does not hold another
C13_Witness ==
    \E t \in Threads :
        /\ pc[t] = "done"
        /\ op[t] \in Lookups
        /\ \E s \in Strs : LookupResult(t, s) = NotFound
        /\ \E s \in Strs : /\ LookupResult(t, s).tag = "Ok"
                           /\ normalize_key(LookupResult(t, s).val) # LookupResult(t, s).val

----------------------------------------------------------------------------
(* C14 *)

\* C14: normalization is idempotent: normalize_key applied to a key that
\* normalize_key returned gives that key again.
C14_Idempotent == norm.n = 2 => norm.second = norm.first

\* normalize_key has been applied twice to a string that has white space to
\* trim at both ends and a capital sigma to lowercase
C14_Witness ==
    /\ norm.n = 2
    /\ norm.input = << " ", "SIGMA", " " >>
    /\ norm.first = << "sigma" >>

----------------------------------------------------------------------------
(* C17 *)

\* normalize as the specification words it: lowercase the string, then trim
\* leading and trailing white space
normalize(s) == trim(to_lowercase(s))

\* C17: normalize_key, which trims and then lowercases, returns for every
\* string the key that lowercasing and then trimming gives; the key depends
\* on the string alone.
C17_SameAsLowercaseThenTrim == norm.n >= 1 => norm.first = normalize(norm.input)

\* normalize_key has been applied to a word that ends in a capital sigma and
\* is followed by white space: the sigma is word final in both orders
C17_Witness ==
    /\ norm.n = 1
    /\ norm.input = << "a", "SIGMA", " " >>
    /\ norm.first = << "a", "fsigma" >>

----------------------------------------------------------------------------
(* C15 *)

\* no two records of recs share a normalized code or a normalized message
NoCollision(recs) ==
    \A j, k \in 1..Len(recs) :
        j # k => /\ normalize_key(recs[j].code) # normalize_key(recs[k].code)
                 /\ normalize_key(recs[j].message) # normalize_key(recs[k].message)

\* C15: whenever both mappings are Ready they are mutually consistent, the
\* record source being collision-free at every read and allowed to differ
\* between two reads: for every key k of CodeToMessage,
\* normalize_key(CodeToMessage[k]) is a key of MessageToCode and the code
\* stored there normalizes to k.
C15_MutuallyConsistent ==
    (\A s \in DriftSources : s.kind = "ok" => NoCollision(s.statuses)) =>
        (CODE_TO_MESSAGE.once = "complete" /\ MESSAGE_TO_CODE.once = "complete" =>
            \A k \in DOMAIN CODE_TO_MESSAGE.value :
                LET mk == normalize_key(CODE_TO_MESSAGE.value[k])
                IN  /\ mk \in DOMAIN MESSAGE_TO_CODE.value
                    /\ normalize_key(MESSAGE_TO_CODE.value[mk]) = k)

----------------------------------------------------------------------------
(* C19 *)

\* thread t takes a step
Steps(t) == pc'[t] # pc[t] \/ i'[t] # i[t]

\* the cell the call of thread t goes through, during and after the step
\* that enters the call
CellDuring(t) == CellOf(IF pc[t] = "idle" THEN op'[t] ELSE op[t])

\* C19: a query initializes only the mapping it reads: no step of code,
\* is_valid_message or all_codes changes CODE_TO_MESSAGE and no step of
\* message, is_valid_code or all_messages changes MESSAGE_TO_CODE, a failed
\* load included; a mapping that is Ready goes on serving its queries.
C19_OtherCellUntouched ==
    [][\A t \in Threads :
         Steps(t) =>
            /\ CellDuring(t) = "m2c" => CODE_TO_MESSAGE' = CODE_TO_MESSAGE
            /\ CellDuring(t) = "c2m" => MESSAGE_TO_CODE' = MESSAGE_TO_CODE]_vars

\* a load for CODE_TO_MESSAGE has failed while MESSAGE_TO_CODE was Ready,
\* and a query on MESSAGE_TO_CODE has been served since
C19_Witness ==
    /\ source.kind # "ok"
    /\ MESSAGE_TO_CODE.once = "complete"
    /\ CODE_TO_MESSAGE.once = "poisoned"
    /\ \E t1, t2 \in Threads :
        /\ pc[t1] = "panicked" /\ CellOf(op[t1]) = "c2m"
        /\ pc[t2] = "done" /\ CellOf(op[t2]) = "m2c"
        /\ view[t2] = MESSAGE_TO_CODE.value
        /\ view[t2] # EmptyMap

----------------------------------------------------------------------------
(* C18 *)

Cells == {"c2m", "m2c"}

\* the threads that are running the initializer of cell c
Runners(c) == {t \in Threads : pc[t] \in {"load", "loop"} /\ CellOf(op[t]) = c}

\* C18: the initializer of a cell never runs concurrently with itself (at
\* most one thread is inside load_status_maps for the cell, exactly while
\* its Once is running); every successful run has published its cell, so
\* each cell is published at most once and load_status_maps succeeds at
\* most twice in a process.
C18_OneInitializerPerCell ==
    /\ \A c \in Cells :
        /\ Cardinality(Runners(c)) <= 1
        /\ Runners(c) # {} <=> Cell(c).once = "running"
    /\ builds = Cardinality({c \in Cells : Cell(c).once = "complete"})
    /\ builds <= 2

\* one mapping is built; a thread is inside the loader for the other one
\* while another first caller of that mapping waits
C18_Witness ==
    /\ builds = 1
    /\ \E t1, t2 \in Threads :
        /\ t1 # t2
        /\ pc[t1] = "loop"
        /\ pc[t2] = "init"
        /\ CellOf(op[t1]) = CellOf(op[t2])

----------------------------------------------------------------------------
(* C16 *)

InCall(t) == pc[t] \in {"init", "load", "loop"}

Completed(t) == pc[t] \in {"done", "panicked"}

\* C16: under fair scheduling every query call completes: no caller stays
\* inside a call forever (waiting on the Once of its cell or running the
\* loader), also when the thread that ran the build failed; a call is left
\* only with the mapping or with the failure outcome; and a caller whose
\* cell is complete when it calls gets the mapping in that same step,
\* without waiting.
C16_EveryCallCompletes ==
    /\ \A t \in Threads : []<>(~InCall(t))
    /\ [][\A t \in Threads :
            /\ (InCall(t) /\ ~InCall(t)') => Completed(t)'
            /\ (pc[t] = "idle" /\ pc'[t] # "idle"
                    /\ Cell(CellOf(op'[t])).once = "complete")
                => pc'[t] = "done"]_vars

\* the source cannot be loaded, one thread is running the build of a cell
\* and another caller waits on that build
C16_Witness ==
    /\ source.kind # "ok"
    /\ \E t1, t2 \in Threads :
        /\ pc[t1] = "load"
        /\ pc[t2] = "init"
        /\ CellOf(op[t1]) = CellOf(op[t2])
        /\ Cell(CellOf(op[t2])).once = "running"

====
